---- MODULE Spec2Model ----
(***************************************************************************)
(* Model of yurimachados/rinha-backend-go: the asynchronous payment        *)
(* dispatch engine.                                                        *)
(*                                                                         *)
(*   queue/processor.go   PaymentProcessor: routing default -> fallback,   *)
(*                        the two circuit breakers, the four counters and  *)
(*                        the health checker.                              *)
(*   queue/worker.go      WorkerPool: bounded channel, batching workers,   *)
(*                        Submit, Start, Stop.                             *)
(*   handlers/payments.go PaymentHandler: PostPayments, its own channel    *)
(*                        and workers, StartHealthChecker.                 *)
(*   types/payment.go     PaymentRequest.Validate.                         *)
(*                                                                         *)
(* A PaymentHandler builds a private PaymentProcessor (payments.go:23) and *)
(* a WorkerPool receives the one it is given (worker.go:23), so the two    *)
(* never share a processor.  The variables below describe one              *)
(* PaymentProcessor and the component that owns it: Spec is a program that *)
(* wires a WorkerPool to it, HandlerSpec a program that wires a            *)
(* PaymentHandler to it (the main of the repository).                      *)
(*                                                                         *)
(* Every atomic operation of the code (atomic.AddInt64, atomic.LoadInt64,  *)
(* atomic.StoreInt64, a channel operation) is one step.  The stores to     *)
(* LastCheckTime and ResponseTimeMs are left out: no code reads them.      *)
(***************************************************************************)
EXTENDS Integers, Sequences, FiniteSets, TLC

\* ----------------------------------------------------------------- bounds
\* Number of workers of the pool (worker.go:27 takes 4 x NumCPU, at most 100).
NumWorkers == 1
\* Capacity of WorkerPool.workQueue (the queueSize given to NewWorkerPool).
QueueSize == 2
\* Number of Submit calls the callers make in one behaviour.
MaxSubmits == 4
\* Number of Submit calls in the behaviours that show how many sends a
\* processor that is down receives.
MaxSubmitsDown == 5
\* Batch size of a worker; the code uses 10 (worker.go:71, worker.go:92).
BatchSize == 3
\* Capacity of the semaphore of processBatch; the code uses 5 (worker.go:114).
SemaphoreSize == 2
\* Number of PostPayments requests in one behaviour.
MaxPosts == 3
\* Capacity of PaymentHandler.paymentQueue; the code uses 10000 (payments.go:27).
HandlerQueueSize == 2
\* Number of workers of the handler; the code starts 50 (payments.go:31).
HandlerWorkers == 2

\* ------------------------------------------------------ program constants
\* markUnhealthy opens the breaker at this many failures.
FailureThreshold == 3
\* Validate rejects a description longer than this.
MaxDescription == 255

Workers == 1..NumWorkers
HWorkers == 1..HandlerWorkers
Processors == {"default", "fallback"}

\* ------------------------------------------------------------- payments
\* types.PaymentRequest; Description is kept by its length only.
PaymentRequest(amount, type, descLen) ==
    [Amount |-> amount, Type |-> type, DescLen |-> descLen]

ValidPayment == PaymentRequest(1, "credit", 0)

\* What the callers of WorkerPool.Submit hand over.
SubmitInputs == {ValidPayment, PaymentRequest(0, "", 0)}

\* What the bodies of POST /payments decode to.
PostInputs ==
    {PaymentRequest(a, t, d) : a \in {-1, 0, 1}, t \in {"", "credit"},
                               d \in {0, MaxDescription + 1}}

\* PaymentRequest.Validate: "" is no error.
Validate(p) ==
    IF p.Amount <= 0 THEN "amount must be positive"
    ELSE IF p.Type = "" THEN "type is required"
    ELSE IF p.DescLen > MaxDescription THEN "description too long"
    ELSE ""

\* ----------------------------------------------------- upstream answers
\* What one send may end in: an HTTP status class, or "err" for a failure of
\* ToJSON, NewRequestWithContext or client.Do (timeout, connection error).
Outcomes == {"2xx", "4xx", "429", "5xx", "err"}

\* sendToProcessor: Success of the result.
IsSuccess(o) == o = "2xx"

\* Mutant of MarksUnhealthy: every answer that is not a success counts as a
\* failure of the processor.
MarksUnhealthy_AnyFailure(o) == o # "2xx"

\* sendToProcessor: the outcomes after which markUnhealthy is called.
MarksUnhealthy(o) == o = "err" \/ o = "429" \/ o = "5xx"

\* How a processor answers the sends of one behaviour: anything, 2xx to every
\* send, or 5xx to every send.
AnswersOf(mode) ==
    CASE mode = "always2xx" -> {"2xx"}
      [] mode = "always5xx" -> {"5xx"}
      [] OTHER -> Outcomes

\* The surroundings of one behaviour: how each processor answers, the
\* payments the callers of Submit hand over and how many calls they make, and
\* whether the program that owns the pool also runs HealthChecker on its
\* processor.
Scenario(d, f, inputs, checker, submits) ==
    [default |-> d, fallback |-> f, inputs |-> inputs, checker |-> checker,
     submits |-> submits]

Scenarios ==
    {Scenario("any", "any", {ValidPayment}, FALSE, MaxSubmits),
     Scenario("always2xx", "always2xx", SubmitInputs, TRUE, MaxSubmits),
     Scenario("always5xx", "always2xx", {ValidPayment}, TRUE, MaxSubmits),
     Scenario("always5xx", "always2xx", {ValidPayment}, FALSE, MaxSubmitsDown)}

\* pingProcessor: TRUE only for a 200 answer.
PingOutcomes == {"200", "other", "err"}
PingOK(o) == o = "200"

\* ------------------------------------------------------------ variables
VARIABLES
    processor,      \* the PaymentProcessor: two ProcessorStatus and four counters
    workQueue,      \* WorkerPool.workQueue: the buffered payments
    closed,         \* close(wp.workQueue) was executed
    cancelled,      \* wp.cancel() was executed: wp.ctx is done
    started,        \* Start() was called
    stopPc,         \* position of the Stop() call
    wpc,            \* position of each pool worker
    batch,          \* each worker's batch: the payments with their ProcessPayment call
    hcPc,           \* position of the HealthChecker goroutine
    hcCtx,          \* the context HealthChecker was given: "live" or "nil"
    probe,          \* position of the two goroutines of checkProcessorHealth
    paymentQueue,   \* PaymentHandler.paymentQueue
    hcall,          \* each handler worker's ProcessPayment call
    requestCounter, \* PaymentHandler.requestCounter
    posts,          \* PostPayments requests served
    lastStatus,     \* HTTP status of the last PostPayments response
    crashed,        \* an unrecovered panic ended the process
    \* history variables: what the callers and the processors have seen
    submits,        \* Submit calls made
    accepted,       \* Submit calls that returned true
    rejected,       \* Submit calls that returned false
    panics,         \* Submit calls that panicked
    scenario,       \* the surroundings of this behaviour
    returned,       \* ProcessPayment calls that have returned
    streak          \* per processor, failures recorded since the last markHealthy write

procVars == <<processor, scenario, returned, streak>>
poolVars == <<workQueue, closed, cancelled, started, stopPc, wpc, batch>>
submitVars == <<submits, accepted, rejected, panics>>
checkerVars == <<hcPc, hcCtx, probe>>
handlerVars == <<paymentQueue, hcall, requestCounter, posts, lastStatus>>

vars == <<processor, workQueue, closed, cancelled, started, stopPc, wpc, batch,
          hcPc, hcCtx, probe, paymentQueue, hcall, requestCounter, posts, lastStatus,
          crashed, submits, accepted, rejected, panics, scenario, returned,
          streak>>

\* ---------------------------------------------------- PaymentProcessor
\* NewPaymentProcessor: both processors healthy, all counters zero.
NewPaymentProcessor ==
    [defaultStatus   |-> [IsHealthy |-> 1, FailureCount |-> 0],
     fallbackStatus  |-> [IsHealthy |-> 1, FailureCount |-> 0],
     totalPayments   |-> 0,
     defaultSuccess  |-> 0,
     fallbackSuccess |-> 0,
     totalErrors     |-> 0]

\* The ProcessorStatus of a processor id.
StatusOf(pr, id) == IF id = "default" THEN pr.defaultStatus ELSE pr.fallbackStatus

WithStatus(pr, id, s) ==
    IF id = "default" THEN [pr EXCEPT !.defaultStatus = s]
    ELSE [pr EXCEPT !.fallbackStatus = s]

\* markHealthy, first store: atomic.StoreInt64(&status.IsHealthy, 1).
MarkHealthyStoreHealthy(s) == [s EXCEPT !.IsHealthy = 1]

\* Mutant of MarkHealthyStoreCount: the failure count is left as it is.
MarkHealthyStoreCount_Forgotten(s) == [s EXCEPT !.FailureCount = @]

\* markHealthy, second store: atomic.StoreInt64(&status.FailureCount, 0).
MarkHealthyStoreCount(s) == [s EXCEPT !.FailureCount = 0]

\* markUnhealthy: failures := atomic.AddInt64(&status.FailureCount, 1).
MarkUnhealthyAdd(s) == [s EXCEPT !.FailureCount = @ + 1]

\* Mutant of ReachedThreshold: > written for >=.
ReachedThreshold_Strict(failures) == failures > FailureThreshold

\* markUnhealthy: if failures >= 3.
ReachedThreshold(failures) == failures >= FailureThreshold

\* Mutant of MarkUnhealthyStore: the breaker is left as it is.
MarkUnhealthyStore_Forgotten(s) == [s EXCEPT !.IsHealthy = @]

\* markUnhealthy: atomic.StoreInt64(&status.IsHealthy, 0).
MarkUnhealthyStore(s) == [s EXCEPT !.IsHealthy = 0]

\* Mutant of ShouldTry: an attempt is made whatever the breaker says.
ShouldTry_Always(isHealthy) == isHealthy \in {0, 1}

\* ProcessPayment: the guard of an attempt, atomic.LoadInt64(&IsHealthy) == 1.
ShouldTry(isHealthy) == isHealthy = 1

\* A ProcessPayment call: the payment, the position in the code, the processor
\* being tried, the value markUnhealthy read back, and what the call has done
\* so far (loaded: the IsHealthy values it read; sends: where it sent; answer:
\* what the send it has just made ended in, "none" after its next step).
NewCall(p) ==
    [payment |-> p, pc |-> "wait", target |-> "default", failures |-> 0,
     loaded |-> <<>>, sends |-> <<>>, answer |-> "none"]

\* A handler worker that waits for a payment.
IdleCall == [NewCall(ValidPayment) EXCEPT !.pc = "idle"]

\* Mutant of Returned: the payment of a finished call waits to be processed again.
Returned_Requeued(c) == NewCall(c.payment)

\* A call that has returned: its locals are gone.
Returned(c) == [NewCall(c.payment) EXCEPT !.pc = "done"]

\* Mutant of NextAttempt: a payment that found default Open fails at once.
NextAttempt_SkippedIsError(c) ==
    IF c.target = "default" /\ c.sends # <<>>
    THEN [c EXCEPT !.target = "fallback", !.pc = "load"]
    ELSE [c EXCEPT !.pc = "error"]

\* Mutant of NextAttempt: a failed attempt on default ends the payment.
NextAttempt_NoFallback(c) == [c EXCEPT !.pc = "error"]

\* ProcessPayment after the attempt on c.target failed or was skipped: the
\* fallback attempt after default, "Ambos falharam" after fallback.
NextAttempt(c) ==
    IF c.target = "default"
    THEN [c EXCEPT !.target = "fallback", !.pc = "load"]
    ELSE [c EXCEPT !.pc = "error"]

\* Mutant of CountSuccess: a success on fallback is not counted.
CountSuccess_FallbackForgotten(pr, id) ==
    IF id = "default" THEN [pr EXCEPT !.defaultSuccess = @ + 1]
    ELSE pr

\* Mutant of CountSuccess: the two counters swapped.
CountSuccess_Swapped(pr, id) ==
    IF id = "default" THEN [pr EXCEPT !.fallbackSuccess = @ + 1]
    ELSE [pr EXCEPT !.defaultSuccess = @ + 1]

\* ProcessPayment: the counter a success on processor id increments.
CountSuccess(pr, id) ==
    IF id = "default" THEN [pr EXCEPT !.defaultSuccess = @ + 1]
    ELSE [pr EXCEPT !.fallbackSuccess = @ + 1]

Event(kind, id, outcome) == [kind |-> kind, id |-> id, outcome |-> outcome]

\* One atomic step of a ProcessPayment call c on processor state pr: the set
\* of possible results [call, proc, event].
ProcessPaymentStep(call, pr, answers) ==
    LET c == [call EXCEPT !.answer = "none"]
        s == StatusOf(pr, c.target) IN
    CASE c.pc = "start" ->
           \* atomic.AddInt64(&p.totalPayments, 1)
           {[call  |-> [c EXCEPT !.pc = "load", !.target = "default"],
             proc  |-> [pr EXCEPT !.totalPayments = @ + 1],
             event |-> Event("start", "none", "none")]}
      [] c.pc = "load" ->
           \* if atomic.LoadInt64(&status.IsHealthy) == 1
           LET c1 == [c EXCEPT !.loaded = Append(@, <<c.target, s.IsHealthy>>)] IN
           {[call  |-> IF ShouldTry(s.IsHealthy) THEN [c1 EXCEPT !.pc = "send"]
                       ELSE NextAttempt(c1),
             proc  |-> pr,
             event |-> Event("load", c.target, "none")]}
      [] c.pc = "send" ->
           \* sendToProcessor up to the answer of the processor
           {[call  |-> LET c1 == [c EXCEPT !.sends = Append(@, c.target), !.answer = o] IN
                       IF IsSuccess(o) THEN [c1 EXCEPT !.pc = "markHealthy1"]
                       ELSE IF MarksUnhealthy(o) THEN [c1 EXCEPT !.pc = "markUnhealthyAdd"]
                       ELSE NextAttempt(c1),
             proc  |-> pr,
             event |-> Event("send", c.target, o)] : o \in answers}
      [] c.pc = "markHealthy1" ->
           {[call  |-> [c EXCEPT !.pc = "markHealthy2"],
             proc  |-> WithStatus(pr, c.target, MarkHealthyStoreHealthy(s)),
             event |-> Event("markHealthy1", c.target, "none")]}
      [] c.pc = "markHealthy2" ->
           {[call  |-> [c EXCEPT !.pc = "success"],
             proc  |-> WithStatus(pr, c.target, MarkHealthyStoreCount(s)),
             event |-> Event("markHealthy2", c.target, "none")]}
      [] c.pc = "markUnhealthyAdd" ->
           LET s1 == MarkUnhealthyAdd(s)
               c1 == [c EXCEPT !.failures = s1.FailureCount] IN
           {[call  |-> IF ReachedThreshold(c1.failures)
                       THEN [c1 EXCEPT !.pc = "markUnhealthyStore"]
                       ELSE NextAttempt(c),
             proc  |-> WithStatus(pr, c.target, s1),
             event |-> Event("markUnhealthyAdd", c.target, "none")]}
      [] c.pc = "markUnhealthyStore" ->
           {[call  |-> NextAttempt([c EXCEPT !.failures = 0]),
             proc  |-> WithStatus(pr, c.target, MarkUnhealthyStore(s)),
             event |-> Event("markUnhealthyStore", c.target, "none")]}
      [] c.pc = "success" ->
           \* atomic.AddInt64(&p.defaultSuccess, 1) or (&p.fallbackSuccess, 1)
           {[call  |-> Returned(c),
             proc  |-> CountSuccess(pr, c.target),
             event |-> Event("return", c.target, "success")]}
      [] c.pc = "error" ->
           \* atomic.AddInt64(&p.totalErrors, 1)
           {[call  |-> Returned(c),
             proc  |-> [pr EXCEPT !.totalErrors = @ + 1],
             event |-> Event("return", "none", "error")]}
      [] OTHER -> {}

\* A call that ProcessPayment is executing.
Running(c) == c.pc \notin {"wait", "idle", "done"}

\* The history after a step of a ProcessPayment call or of a probe.
Observe(ev) ==
    /\ returned' = IF ev.kind = "return" THEN returned + 1 ELSE returned
    /\ streak' = IF ev.kind = "markUnhealthyAdd"
                 THEN [streak EXCEPT ![ev.id] = @ + 1]
                 ELSE IF ev.kind \in {"markHealthy1", "markHealthy2"}
                 THEN [streak EXCEPT ![ev.id] = 0]
                 ELSE streak
    /\ UNCHANGED scenario

\* GetSummary: the four counters.
GetSummary ==
    [TotalPayments   |-> processor.totalPayments,
     DefaultSuccess  |-> processor.defaultSuccess,
     FallbackSuccess |-> processor.fallbackSuccess,
     TotalErrors     |-> processor.totalErrors]

\* ------------------------------------------------------------ WorkerPool
\* Mutant of ChannelFull: the buffer takes one payment more than its capacity.
ChannelFull_OffByOne(q, capacity) == Len(q) > capacity

\* A buffered channel holding q has no room for a send.
ChannelFull(q, capacity) == Len(q) >= capacity

\* The select of Submit on a channel holding q: a send on a closed channel
\* panics, a send on a channel with room succeeds, otherwise the default case.
TrySend(q, isClosed, capacity) ==
    IF isClosed THEN "panic"
    ELSE IF ChannelFull(q, capacity) THEN "false"
    ELSE "true"

\* WorkerPool.Submit(payment).
Submit(p) ==
    /\ ~crashed
    /\ submits < scenario.submits
    /\ submits' = submits + 1
    /\ LET r == TrySend(workQueue, closed, QueueSize) IN
         /\ workQueue' = IF r = "true" THEN Append(workQueue, p) ELSE workQueue
         /\ accepted' = IF r = "true" THEN accepted + 1 ELSE accepted
         /\ rejected' = IF r = "false" THEN rejected + 1 ELSE rejected
         /\ panics' = IF r = "panic" THEN panics + 1 ELSE panics
    /\ UNCHANGED <<closed, cancelled, started, stopPc, wpc, batch>>
    /\ UNCHANGED <<procVars, checkerVars, handlerVars, crashed>>

\* WorkerPool.Start(): one goroutine per worker, each entering its select.
Start ==
    /\ ~crashed
    /\ ~started
    /\ stopPc = "idle"
    /\ started' = TRUE
    /\ wpc' = [w \in Workers |-> "select"]
    /\ UNCHANGED <<workQueue, closed, cancelled, stopPc, batch>>
    /\ UNCHANGED <<procVars, submitVars, checkerVars, handlerVars, crashed>>

\* WorkerPool.Stop(), first statement: close(wp.workQueue).
StopClose ==
    /\ ~crashed
    /\ stopPc = "idle"
    /\ closed' = TRUE
    /\ stopPc' = "cancel"
    /\ UNCHANGED <<workQueue, cancelled, started, wpc, batch>>
    /\ UNCHANGED <<procVars, submitVars, checkerVars, handlerVars, crashed>>

\* WorkerPool.Stop(), second statement: wp.cancel().
StopCancel ==
    /\ ~crashed
    /\ stopPc = "cancel"
    /\ cancelled' = TRUE
    /\ stopPc' = "wait"
    /\ UNCHANGED <<workQueue, closed, started, wpc, batch>>
    /\ UNCHANGED <<procVars, submitVars, checkerVars, handlerVars, crashed>>

\* The workers wp.wg still counts.
LiveWorkers == {w \in Workers : wpc[w] \notin {"idle", "exited"}}

\* WorkerPool.Stop(), third statement: wp.wg.Wait() returns.
StopWait ==
    /\ ~crashed
    /\ stopPc = "wait"
    /\ LiveWorkers = {}
    /\ stopPc' = "done"
    /\ UNCHANGED <<workQueue, closed, cancelled, started, wpc, batch>>
    /\ UNCHANGED <<procVars, submitVars, checkerVars, handlerVars, crashed>>

\* Mutant of FinalFlush: the worker returns without flushing the batch it holds.
FinalFlush_Skipped(b) == IF Len(b) >= 0 THEN "exited" ELSE "finalFlush"

\* worker: what follows a processBatch(batch) that precedes return.  An empty
\* batch returns from processBatch at once and the worker exits.
FinalFlush(b) == IF Len(b) = 0 THEN "exited" ELSE "finalFlush"

\* worker, case <-wp.ctx.Done(): flush the batch held and return.
WorkerCtxDone(w) ==
    /\ ~crashed
    /\ wpc[w] = "select"
    /\ cancelled
    /\ wpc' = [wpc EXCEPT ![w] = FinalFlush(batch[w])]
    /\ UNCHANGED <<workQueue, closed, cancelled, started, stopPc, batch>>
    /\ UNCHANGED <<procVars, submitVars, checkerVars, handlerVars, crashed>>

\* worker: if len(batch) >= 10.
BatchFull(b) == Len(b) >= BatchSize

\* worker, case payment, ok := <-wp.workQueue with ok: append, flush when full.
WorkerReceive(w) ==
    /\ ~crashed
    /\ wpc[w] = "select"
    /\ Len(workQueue) > 0
    /\ workQueue' = Tail(workQueue)
    /\ LET b == Append(batch[w], NewCall(Head(workQueue))) IN
         /\ batch' = [batch EXCEPT ![w] = b]
         /\ wpc' = [wpc EXCEPT ![w] = IF BatchFull(b) THEN "flush" ELSE "select"]
    /\ UNCHANGED <<closed, cancelled, started, stopPc>>
    /\ UNCHANGED <<procVars, submitVars, checkerVars, handlerVars, crashed>>

\* worker, case payment, ok := <-wp.workQueue with !ok: the channel is closed
\* and empty; flush the batch held and return.
WorkerReceiveClosed(w) ==
    /\ ~crashed
    /\ wpc[w] = "select"
    /\ closed
    /\ Len(workQueue) = 0
    /\ wpc' = [wpc EXCEPT ![w] = FinalFlush(batch[w])]
    /\ UNCHANGED <<workQueue, closed, cancelled, started, stopPc, batch>>
    /\ UNCHANGED <<procVars, submitVars, checkerVars, handlerVars, crashed>>

\* Mutant of TickFlushes: the tick flushes only a full batch.
TickFlushes_OnlyFull(b) == Len(b) >= BatchSize

\* worker, case <-ticker.C: if len(batch) > 0.
TickFlushes(b) == Len(b) > 0

\* worker, case <-ticker.C: flush a batch that holds something.
WorkerTick(w) ==
    /\ ~crashed
    /\ wpc[w] = "select"
    /\ wpc' = [wpc EXCEPT ![w] = IF TickFlushes(batch[w]) THEN "flush" ELSE "select"]
    /\ UNCHANGED <<workQueue, closed, cancelled, started, stopPc, batch>>
    /\ UNCHANGED <<procVars, submitVars, checkerVars, handlerVars, crashed>>

\* processBatch: the goroutines that hold a slot of the semaphore.
Holding(b) == {i \in DOMAIN b : Running(b[i])}

\* Mutant of SemaphoreFree: the semaphore has one slot more.
SemaphoreFree_OneMore(b) == Cardinality(Holding(b)) <= SemaphoreSize

\* processBatch: semaphore <- struct{}{} can proceed.
SemaphoreFree(b) == Cardinality(Holding(b)) < SemaphoreSize

\* processBatch, one round of the loop: take a slot of the semaphore and start
\* the goroutine of the next payment of the batch.
Launch(w) ==
    /\ ~crashed
    /\ wpc[w] \in {"flush", "finalFlush"}
    /\ \E i \in DOMAIN batch[w] :
         /\ batch[w][i].pc = "wait"
         /\ \A j \in 1..(i - 1) : batch[w][j].pc # "wait"
         /\ SemaphoreFree(batch[w])
         /\ batch' = [batch EXCEPT ![w][i].pc = "start"]
    /\ UNCHANGED <<workQueue, closed, cancelled, started, stopPc, wpc>>
    /\ UNCHANGED <<procVars, submitVars, checkerVars, handlerVars, crashed>>

\* One atomic step of the goroutine of payment i of the batch of worker w.  The
\* deferred release of the semaphore and batchWg.Done() go with its last step.
CallStep(w, i) ==
    /\ ~crashed
    /\ wpc[w] \in {"flush", "finalFlush"}
    /\ i \in DOMAIN batch[w]
    /\ Running(batch[w][i])
    /\ \E r \in ProcessPaymentStep(batch[w][i], processor,
                                    AnswersOf(scenario[batch[w][i].target])) :
         /\ processor' = r.proc
         /\ batch' = [batch EXCEPT ![w][i] = r.call]
         /\ Observe(r.event)
    /\ UNCHANGED <<workQueue, closed, cancelled, started, stopPc, wpc>>
    /\ UNCHANGED <<submitVars, checkerVars, handlerVars, crashed>>

\* Mutant of BatchDone: batchWg.Wait() returns when the first goroutine is done.
BatchDone_FirstDone(b) == \E i \in DOMAIN b : b[i].pc = "done"

\* processBatch: batchWg.Wait() returns once every goroutine is done.
BatchDone(b) == \A i \in DOMAIN b : b[i].pc = "done"

\* worker after processBatch returned: batch = batch[:0] and back to the
\* select, or return after the final flush.
FlushDone(w) ==
    /\ ~crashed
    /\ wpc[w] \in {"flush", "finalFlush"}
    /\ BatchDone(batch[w])
    /\ wpc' = [wpc EXCEPT ![w] = IF wpc[w] = "flush" THEN "select" ELSE "exited"]
    /\ batch' = [batch EXCEPT ![w] = IF wpc[w] = "flush" THEN <<>> ELSE @]
    /\ UNCHANGED <<workQueue, closed, cancelled, started, stopPc>>
    /\ UNCHANGED <<procVars, submitVars, checkerVars, handlerVars, crashed>>

\* GetQueueSize.
GetQueueSize == Len(workQueue)

\* -------------------------------------------------------- HealthChecker
\* go processor.HealthChecker(ctx) with a context that is not done.
HealthCheckerStart ==
    /\ ~crashed
    /\ scenario.checker
    /\ hcPc = "off"
    /\ hcPc' = "select"
    /\ hcCtx' = "live"
    /\ UNCHANGED <<probe, procVars, poolVars, submitVars, handlerVars, crashed>>

\* HealthChecker, case <-ticker.C: checkProcessorHealth starts its two goroutines.
HealthCheckerTick ==
    /\ ~crashed
    /\ hcPc = "select"
    /\ hcCtx # "nil"
    /\ hcPc' = "check"
    /\ probe' = [id \in Processors |-> "load"]
    /\ UNCHANGED <<hcCtx, procVars, poolVars, submitVars, handlerVars, crashed>>

\* Mutant of ShouldProbe: every processor is probed.
ShouldProbe_Always(isHealthy) == isHealthy \in {0, 1}

\* checkProcessorHealth: a processor is probed if its IsHealthy reads 0.
ShouldProbe(isHealthy) == isHealthy = 0

\* One atomic step of the goroutine of checkProcessorHealth for processor id;
\* "failed" is the end of a goroutine whose pingProcessor returned false.
ProbeStep(id) ==
    /\ ~crashed
    /\ hcPc = "check"
    /\ LET s == StatusOf(processor, id) IN
         \/ /\ probe[id] = "load"
            /\ probe' = [probe EXCEPT ![id] =
                             IF ShouldProbe(s.IsHealthy) THEN "ping" ELSE "done"]
            /\ UNCHANGED procVars
         \/ /\ probe[id] = "ping"
            /\ \E o \in PingOutcomes :
                 probe' = [probe EXCEPT ![id] =
                              IF PingOK(o) THEN "markHealthy1" ELSE "failed"]
            /\ UNCHANGED procVars
         \/ /\ probe[id] = "markHealthy1"
            /\ probe' = [probe EXCEPT ![id] = "markHealthy2"]
            /\ processor' = WithStatus(processor, id, MarkHealthyStoreHealthy(s))
            /\ Observe(Event("markHealthy1", id, "none"))
         \/ /\ probe[id] = "markHealthy2"
            /\ probe' = [probe EXCEPT ![id] = "done"]
            /\ processor' = WithStatus(processor, id, MarkHealthyStoreCount(s))
            /\ Observe(Event("markHealthy2", id, "none"))
    /\ UNCHANGED <<hcPc, hcCtx, poolVars, submitVars, handlerVars, crashed>>

\* checkProcessorHealth: wg.Wait() returns, HealthChecker is back in its select.
HealthCheckerJoin ==
    /\ ~crashed
    /\ hcPc = "check"
    /\ \A id \in Processors : probe[id] \in {"done", "failed"}
    /\ hcPc' = "select"
    /\ probe' = [id \in Processors |-> "idle"]
    /\ UNCHANGED <<hcCtx, procVars, poolVars, submitVars, handlerVars, crashed>>


\* ------------------------------------------------------- PaymentHandler
\* A request of POST /payments: the method, whether the body is JSON that
\* decodes into a PaymentRequest without unknown fields, and what it decodes to.
Request(method, decodes, p) == [method |-> method, decodes |-> decodes, payment |-> p]

Requests ==
    {Request(m, d, p) : m \in {"POST", "GET"}, d \in BOOLEAN, p \in PostInputs}

\* The select of PostPayments on h.paymentQueue, which is never closed.
PostPaymentsStatus(r, q) ==
    IF r.method # "POST" THEN 405
    ELSE IF ~r.decodes THEN 400
    ELSE IF Validate(r.payment) # "" THEN 400
    ELSE IF TrySend(q, FALSE, HandlerQueueSize) = "true" THEN 202
    ELSE 503

\* Mutant of PostPayments: every request served counts in requestCounter.
PostPayments_CountsEveryRequest(r) ==
    /\ ~crashed
    /\ posts < MaxPosts
    /\ posts' = posts + 1
    /\ LET status == PostPaymentsStatus(r, paymentQueue) IN
         /\ lastStatus' = status
         /\ paymentQueue' = IF status = 202 THEN Append(paymentQueue, r.payment)
                            ELSE paymentQueue
         /\ requestCounter' = requestCounter + 1
    /\ UNCHANGED <<hcall, procVars, poolVars, submitVars, checkerVars, crashed>>

\* PaymentHandler.PostPayments.
PostPayments(r) ==
    /\ ~crashed
    /\ posts < MaxPosts
    /\ posts' = posts + 1
    /\ LET status == PostPaymentsStatus(r, paymentQueue) IN
         /\ lastStatus' = status
         /\ paymentQueue' = IF status = 202 THEN Append(paymentQueue, r.payment)
                            ELSE paymentQueue
         /\ requestCounter' = IF status = 202 THEN requestCounter + 1
                              ELSE requestCounter
    /\ UNCHANGED <<hcall, procVars, poolVars, submitVars, checkerVars, crashed>>

\* PaymentHandler.worker: for payment := range h.paymentQueue.
HandlerReceive(k) ==
    /\ ~crashed
    /\ hcall[k].pc = "idle"
    /\ Len(paymentQueue) > 0
    /\ paymentQueue' = Tail(paymentQueue)
    /\ hcall' = [hcall EXCEPT ![k] = [NewCall(Head(paymentQueue)) EXCEPT !.pc = "start"]]
    /\ UNCHANGED <<requestCounter, posts, lastStatus>>
    /\ UNCHANGED <<procVars, poolVars, submitVars, checkerVars, crashed>>

\* PaymentHandler.worker: one atomic step of h.processor.ProcessPayment(payment).
HandlerCallStep(k) ==
    /\ ~crashed
    /\ Running(hcall[k])
    /\ \E r \in ProcessPaymentStep(hcall[k], processor, AnswersOf(scenario[hcall[k].target])) :
         /\ processor' = r.proc
         /\ hcall' = [hcall EXCEPT ![k] = r.call]
         /\ Observe(r.event)
    /\ UNCHANGED <<paymentQueue, requestCounter, posts, lastStatus>>
    /\ UNCHANGED <<poolVars, submitVars, checkerVars, crashed>>

\* PaymentHandler.worker: time.Sleep is over, back to the range.
HandlerSleep(k) ==
    /\ ~crashed
    /\ hcall[k].pc = "done"
    /\ hcall' = [hcall EXCEPT ![k] = IdleCall]
    /\ UNCHANGED <<paymentQueue, requestCounter, posts, lastStatus>>
    /\ UNCHANGED <<procVars, poolVars, submitVars, checkerVars, crashed>>

\* PaymentHandler.StartHealthChecker: go h.processor.HealthChecker(nil).
StartHealthChecker ==
    /\ ~crashed
    /\ hcPc = "off"
    /\ hcPc' = "select"
    /\ hcCtx' = "nil"
    /\ UNCHANGED <<probe, procVars, poolVars, submitVars, handlerVars, crashed>>

\* HealthChecker entering its select with a nil context: ctx.Done() is a call
\* on a nil interface, a panic no one recovers, and the process ends.
HealthCheckerNilContext ==
    /\ ~crashed
    /\ hcPc = "select"
    /\ hcCtx = "nil"
    /\ hcPc' = "panicked"
    /\ crashed' = TRUE
    /\ UNCHANGED <<hcCtx, probe, procVars, poolVars, submitVars, handlerVars>>

\* ------------------------------------------------------------ the program
Init ==
    /\ processor = NewPaymentProcessor
    /\ workQueue = <<>>
    /\ closed = FALSE
    /\ cancelled = FALSE
    /\ started = FALSE
    /\ stopPc = "idle"
    /\ wpc = [w \in Workers |-> "idle"]
    /\ batch = [w \in Workers |-> <<>>]
    /\ hcPc = "off"
    /\ hcCtx = "none"
    /\ probe = [id \in Processors |-> "idle"]
    /\ paymentQueue = <<>>
    /\ hcall = [k \in HWorkers |-> IdleCall]
    /\ requestCounter = 0
    /\ posts = 0
    /\ lastStatus = 0
    /\ crashed = FALSE
    /\ submits = 0
    /\ accepted = 0
    /\ rejected = 0
    /\ panics = 0
    /\ scenario \in Scenarios
    /\ returned = 0
    /\ streak = [id \in Processors |-> 0]

\* A program that gives a PaymentProcessor to a WorkerPool and runs the
\* health checker of that processor.
Next ==
    \/ \E p \in scenario.inputs : Submit(p)
    \/ Start
    \/ StopClose
    \/ StopCancel
    \/ StopWait
    \/ \E w \in Workers : WorkerCtxDone(w)
    \/ \E w \in Workers : WorkerReceive(w)
    \/ \E w \in Workers : WorkerReceiveClosed(w)
    \/ \E w \in Workers : WorkerTick(w)
    \/ \E w \in Workers : Launch(w)
    \/ \E w \in Workers : \E i \in 1..BatchSize : CallStep(w, i)
    \/ \E w \in Workers : FlushDone(w)
    \/ HealthCheckerStart
    \/ HealthCheckerTick
    \/ \E id \in Processors : ProbeStep(id)
    \/ HealthCheckerJoin

Spec == Init /\ [][Next]_vars

\* The pool under fair scheduling: the ticker of every worker keeps firing, the
\* goroutines of a flush keep running and every send ends; a Stop that was
\* called runs on; a worker whose select finds wp.ctx done takes that case in
\* the end (select chooses at random among the cases that are ready).
Fairness ==
    /\ WF_vars(StopCancel)
    /\ WF_vars(StopWait)
    /\ \A w \in Workers :
        /\ WF_vars(WorkerTick(w))
        /\ WF_vars(WorkerCtxDone(w))
        /\ WF_vars(Launch(w))
        /\ WF_vars(FlushDone(w))
        /\ \A i \in 1..BatchSize : WF_vars(CallStep(w, i))

\* The behaviours in which default answers 5xx to every send and fallback 2xx.
LiveInit == Init /\ scenario.default = "always5xx" /\ scenario.checker

LiveSpec == LiveInit /\ [][Next]_vars /\ Fairness

\* The main of the repository: a PaymentHandler, its workers started by
\* NewPaymentHandler, and StartHealthChecker.
HandlerNext ==
    \/ \E r \in Requests : PostPayments(r)
    \/ \E k \in HWorkers : HandlerReceive(k)
    \/ \E k \in HWorkers : HandlerCallStep(k)
    \/ \E k \in HWorkers : HandlerSleep(k)
    \/ StartHealthChecker
    \/ HealthCheckerNilContext

HandlerSpec == Init /\ [][HandlerNext]_vars

\* A program that holds a PaymentHandler and, beside it, a WorkerPool it has
\* not started: the two ways a payment is handed in.
IngestNext ==
    \/ \E p \in scenario.inputs : Submit(p)
    \/ \E r \in Requests : PostPayments(r)
    \/ \E k \in HWorkers : HandlerReceive(k)
    \/ \E k \in HWorkers : HandlerCallStep(k)
    \/ \E k \in HWorkers : HandlerSleep(k)

IngestSpec == Init /\ [][IngestNext]_vars

\* =============================================================== claims
\* Every ProcessPayment call of the pool and of the handler.
Calls ==
    UNION {{batch[w][i] : i \in DOMAIN batch[w]} : w \in Workers}
        \cup {hcall[k] : k \in HWorkers}

Min(a, b) == IF a < b THEN a ELSE b

HealthOf(id) == StatusOf(processor, id).IsHealthy
FailuresOf(id) == StatusOf(processor, id).FailureCount

\* C1: with no worker draining a queue of capacity Q, the first Q calls to
\* Submit return true and every later one returns false, so Q+1 calls give
\* exactly Q true and one false; the queue never holds more than Q payments;
\* every call made has returned.
C1_SubmitBackpressure ==
    /\ Len(workQueue) <= QueueSize
    /\ submits = accepted + rejected + panics
    /\ (~started /\ ~closed) =>
         /\ accepted = Min(submits, QueueSize)
         /\ rejected = submits - accepted
         /\ Len(workQueue) = accepted
         /\ (submits = QueueSize + 1 => accepted = QueueSize /\ rejected = 1)

C1_Witness ==
    /\ ~started
    /\ ~closed
    /\ submits = QueueSize + 1
    /\ accepted = QueueSize
    /\ rejected = 1

\* C2: once Stop has closed the queue, a call to Submit returns false: it
\* neither enqueues the payment nor panics.
C2_SubmitAfterCloseReturnsFalse ==
    [][(closed /\ submits' = submits + 1) =>
          (rejected' = rejected + 1 /\ workQueue' = workQueue /\ panics' = panics)]_vars

\* C3: when Stop has returned, every payment Submit accepted has been through
\* ProcessPayment (the code has no report of abandoned payments).
C3_ShutdownFinalizesAccepted ==
    (started /\ stopPc = "done") => returned = accepted

C5_ProbeClosesBreaker ==
    [][(probe["default"] = "markHealthy2" /\ probe'["default"] = "done") =>
          (HealthOf("default")' = 1 /\ FailuresOf("default")' = 0)]_vars

\* C6: after StartHealthChecker the probe loop keeps running: it neither fails
\* nor returns.
C6_ProbeLoopKeepsRunning ==
    hcPc \notin {"panicked", "returned"} /\ ~crashed

\* The queue is empty and no worker holds a payment that is not finalized.
Drained ==
    /\ workQueue = <<>>
    /\ \A w \in Workers : BatchDone(batch[w])

\* C7: both processors answer 2xx to every send; once the N accepted payments
\* are drained and processed, totalPayments = defaultSuccess = N and
\* fallbackSuccess = totalErrors = 0.
C7_AllDefaultWhenHealthy ==
    (scenario.default = "always2xx" /\ scenario.fallback = "always2xx") =>
        /\ GetSummary.FallbackSuccess = 0
        /\ GetSummary.TotalErrors = 0
        /\ GetSummary.DefaultSuccess = returned
        /\ Drained => /\ GetSummary.TotalPayments = accepted
                      /\ GetSummary.DefaultSuccess = accepted

C7_Witness ==
    /\ scenario.default = "always2xx"
    /\ scenario.fallback = "always2xx"
    /\ Drained
    /\ accepted = MaxSubmits
    /\ GetSummary.DefaultSuccess = MaxSubmits

\* C8: default answers 5xx to every send and fallback 2xx; after N payments
\* have been processed defaultSuccess = 0, fallbackSuccess = N, totalErrors = 0.
C8_AllFallbackWhenDefaultDown ==
    (scenario.default = "always5xx" /\ scenario.fallback = "always2xx") =>
        /\ GetSummary.DefaultSuccess = 0
        /\ GetSummary.TotalErrors = 0
        /\ GetSummary.FallbackSuccess = returned
        /\ Drained => GetSummary.FallbackSuccess = accepted

C8_Witness ==
    /\ scenario.default = "always5xx"
    /\ scenario.fallback = "always2xx"
    /\ Drained
    /\ accepted = MaxSubmits
    /\ GetSummary.FallbackSuccess = MaxSubmits
    /\ HealthOf("default") = 0

\* A worker holds a payment that ProcessPayment has not finalized.
Holds(w) == \E i \in DOMAIN batch[w] : batch[w][i].pc # "done"

\* C9: a payment a running worker holds in its batch, full or not, is
\* eventually flushed and finalized even if no further payment arrives.
C9_PartialBatchFlushes ==
    \A w \in Workers : Holds(w) ~> ~Holds(w)

\* A worker flushes, on a tick, a batch that is not full and has finalized a
\* payment of it.
C9_Witness ==
    \E w \in Workers :
        /\ wpc[w] = "flush"
        /\ Len(batch[w]) < BatchSize
        /\ \E i \in DOMAIN batch[w] : batch[w][i].pc = "done"

\* C10: every queued payment and every payment given to ProcessPayment has a
\* positive amount and a type that is not empty.
C10_OnlyValidPaymentsQueued ==
    /\ \A n \in 1..Len(workQueue) :
         workQueue[n].Amount > 0 /\ workQueue[n].Type # ""
    /\ \A n \in 1..Len(paymentQueue) :
         paymentQueue[n].Amount > 0 /\ paymentQueue[n].Type # ""
    /\ \A c \in Calls : c.pc # "idle" => (c.payment.Amount > 0 /\ c.payment.Type # "")

\* The payments the workers hold that ProcessPayment has not finalized.
Unfinalized ==
    {<<w, i>> \in Workers \X (1..BatchSize) :
        i \in DOMAIN batch[w] /\ batch[w][i].pc # "done"}

\* The calls of the pool that have counted themselves in totalPayments and
\* have not returned.
Counted ==
    {<<w, i>> \in Workers \X (1..BatchSize) :
        i \in DOMAIN batch[w] /\ Running(batch[w][i]) /\ batch[w][i].pc # "start"}

\* C11: a dequeued payment is processed exactly once.  Every payment taken
\* from the queue is either held unfinalized by a worker or has had exactly one
\* ProcessPayment return; a call sends at most once to default and at most once
\* to fallback, to fallback only after default was skipped or sent to; every
\* call counts once in totalPayments and every returned call in exactly one of
\* defaultSuccess, fallbackSuccess, totalErrors.
C11_ProcessedExactlyOnce ==
    /\ returned = accepted - Len(workQueue) - Cardinality(Unfinalized)
    /\ GetSummary.TotalPayments = returned + Cardinality(Counted)
    /\ GetSummary.DefaultSuccess + GetSummary.FallbackSuccess
           + GetSummary.TotalErrors = returned
    /\ \A c \in Calls :
         /\ c.sends \in {<<>>, <<"default">>, <<"fallback">>, <<"default", "fallback">>}
         /\ (c.sends # <<>> /\ c.sends[Len(c.sends)] = "fallback") =>
               /\ Len(c.loaded) = 2
               /\ c.loaded[1] = <<"default", 0>> \/ c.sends[1] = "default"

C11_Witness ==
    /\ Drained
    /\ returned = MaxSubmits
    /\ GetSummary.DefaultSuccess > 0
    /\ GetSummary.FallbackSuccess > 0
    /\ GetSummary.TotalErrors > 0

\* C12: a payment the default processor answers with a 4xx status other than
\* 429 is finalized as a failure: the call goes on to count the error and makes
\* no attempt on fallback.
C12_PaymentLevelFailureIsTerminal ==
    \A c \in Calls :
        (c.answer = "4xx" /\ c.sends = <<"default">>) => c.pc = "error"

\* C13: a send answered with a 4xx status other than 429 writes neither the
\* healthy flag nor the failure count of either processor: sendToProcessor
\* returns without markHealthy or markUnhealthy.
C13_PaymentLevelFailureLeavesBreaker ==
    [][\A w \in Workers : \A i \in DOMAIN batch[w] :
          (/\ i \in DOMAIN batch'[w]
           /\ batch[w][i].pc = "send"
           /\ batch'[w][i].answer = "4xx")
          => /\ processor'.defaultStatus = processor.defaultStatus
             /\ processor'.fallbackStatus = processor.fallbackStatus
             /\ batch'[w][i].pc \in {"load", "error"}]_vars

C13_Witness ==
    \E c \in Calls :
        /\ c.answer = "4xx"
        /\ c.sends = <<"default">>
        /\ FailuresOf("default") = FailureThreshold - 1
        /\ HealthOf("default") = 1

\* What a call read when it found both processors Open.
BothOpen == << <<"default", 0>>, <<"fallback", 0>> >>

\* C14: a call reads default first and fallback second and sends only to a
\* processor it read as Closed; a call that read both as Open makes no send
\* and is finalized as a total failure: totalPayments was incremented when it
\* started, totalErrors is incremented when it ends, and the success counters
\* stay as they are.
C14_RouteSkipsOpenProcessors ==
    /\ [](\A c \in Calls :
            /\ Len(c.loaded) >= 1 => c.loaded[1][1] = "default"
            /\ Len(c.loaded) >= 2 => c.loaded[2][1] = "fallback"
            /\ \A n \in 1..Len(c.sends) :
                 \E m \in 1..Len(c.loaded) : c.loaded[m] = <<c.sends[n], 1>>
            /\ c.loaded = BothOpen => (c.sends = <<>> /\ c.pc = "error"))
    /\ [][\A w \in Workers : \A i \in DOMAIN batch[w] :
            /\ (batch[w][i].pc = "start" /\ batch'[w] # batch[w]
                  /\ batch'[w][i].pc # "start")
               => processor'.totalPayments = processor.totalPayments + 1
            /\ (batch[w][i].loaded = BothOpen /\ batch'[w][i] # batch[w][i])
               => /\ batch'[w][i].pc = "done"
                  /\ processor'.totalErrors = processor.totalErrors + 1
                  /\ processor'.totalPayments = processor.totalPayments
                  /\ processor'.defaultSuccess = processor.defaultSuccess
                  /\ processor'.fallbackSuccess = processor.fallbackSuccess]_vars

C14_Witness ==
    /\ HealthOf("default") = 0
    /\ HealthOf("fallback") = 0
    /\ \E c \in Calls : c.loaded = BothOpen /\ c.pc = "error"

\* C15: a processor goes from Open to Closed only by the markHealthy of a
\* successful probe, never by the outcome of a payment send.
C15_RecoveryOnlyByProbe ==
    [][\A id \in Processors :
          (HealthOf(id) = 0 /\ HealthOf(id)' = 1) =>
              (probe[id] = "markHealthy1" /\ probe'[id] = "markHealthy2")]_vars

\* C16: a Stop that was called returns in the end; when it has returned every
\* worker has exited and every payment a worker had dequeued, those of a batch
\* that was not full included, has been finalized by ProcessPayment.
C16_StopTerminates ==
    /\ (stopPc = "cancel") ~> (stopPc = "done")
    /\ [](stopPc = "done" =>
            \A w \in Workers :
                /\ wpc[w] \in {"idle", "exited"}
                /\ \A i \in DOMAIN batch[w] : batch[w][i].pc = "done")

\* Stop has returned and a worker has exited after the final flush of a batch
\* that was not full.
C16_Witness ==
    /\ started
    /\ stopPc = "done"
    /\ \E w \in Workers :
         /\ wpc[w] = "exited"
         /\ Len(batch[w]) \in 1..(BatchSize - 1)
         /\ \A i \in DOMAIN batch[w] : batch[w][i].pc = "done"

\* C17: a Submit that returns false and a PostPayments request that is not
\* accepted (400 for a body that does not decode or does not validate, 405,
\* 503) leave both queues, the four counters, the health state of both
\* processors and the request counter as they were.
C17_RejectionHasNoSideEffects ==
    [][/\ (submits' = submits + 1 /\ rejected' = rejected + 1) =>
             /\ workQueue' = workQueue
             /\ paymentQueue' = paymentQueue
             /\ processor' = processor
       /\ (posts' = posts + 1 /\ lastStatus' # 202) =>
             /\ workQueue' = workQueue
             /\ paymentQueue' = paymentQueue
             /\ processor' = processor
             /\ requestCounter' = requestCounter]_vars

\* Both kinds of rejection have happened while payments were being processed.
C17_Witness ==
    /\ rejected > 0
    /\ lastStatus = 400
    /\ paymentQueue # <<>>
    /\ processor.totalPayments > 0

\* C18: the goroutines of one worker's flush that are inside ProcessPayment
\* never number more than the capacity of the semaphore.
C18_BoundedParallelSends ==
    \A w \in Workers :
        Cardinality({i \in DOMAIN batch[w] : Running(batch[w][i])}) <= SemaphoreSize

\* The semaphore is full and a payment of the batch waits for a slot.
C18_Witness ==
    \E w \in Workers :
        /\ Cardinality({i \in DOMAIN batch[w] : Running(batch[w][i])}) = SemaphoreSize
        /\ \E i \in DOMAIN batch[w] : batch[w][i].pc = "wait"

\* C19: a worker takes a payment from the queue only while it is in its select
\* with no item of its batch in progress, and resets its batch only when every
\* item of it is finalized; the items it keeps stay what they were; outside a
\* flush no item is in progress; a batch never holds more than BatchSize
\* payments.
C19_FlushIsJoinBarrier ==
    /\ [](\A w \in Workers :
            /\ Len(batch[w]) <= BatchSize
            /\ wpc[w] \notin {"flush", "finalFlush"} =>
                  \A i \in DOMAIN batch[w] : batch[w][i].pc \in {"wait", "done"})
    /\ [][\A w \in Workers :
            /\ Len(batch'[w]) > Len(batch[w]) =>
                  /\ wpc[w] = "select"
                  /\ \A i \in DOMAIN batch[w] :
                       batch[w][i].pc = "wait" /\ batch'[w][i] = batch[w][i]
            /\ Len(batch'[w]) < Len(batch[w]) =>
                  \A i \in DOMAIN batch[w] : batch[w][i].pc = "done"
            /\ \A i \in DOMAIN batch[w] \cap DOMAIN batch'[w] :
                  batch'[w][i].payment = batch[w][i].payment]_vars

\* During a flush one payment is finalized, another is in progress and the
\* queue holds a payment the worker leaves there.
C19_Witness ==
    \E w \in Workers :
        /\ wpc[w] = "flush"
        /\ workQueue # <<>>
        /\ \E i \in DOMAIN batch[w] : batch[w][i].pc = "done"
        /\ \E i \in DOMAIN batch[w] : Running(batch[w][i])

\* A markHealthy on processor id has made its first store and not its second.
MarkHealthyInProgress(id) ==
    \/ probe[id] = "markHealthy2"
    \/ \E c \in Calls : c.pc = "markHealthy2" /\ c.target = id

\* C20: a processor is Open only if its failure count reached the threshold
\* and no markHealthy has completed since: when no markHealthy is under way on
\* an Open processor, at least three failures were recorded on it after the
\* last write of a markHealthy.
C20_OpenOnlyAfterThreshold ==
    \A id \in Processors :
        (HealthOf(id) = 0 /\ ~MarkHealthyInProgress(id)) =>
            streak[id] >= FailureThreshold

\* The ProcessPayment calls the pool can have running at once.
MaxConcurrentCalls == NumWorkers * SemaphoreSize

\* Default answers 5xx to every send and no probe runs.
DownNoProbe == scenario.default = "always5xx" /\ hcPc = "off"

\* The sends made to default so far while DownNoProbe: each of them ends in
\* markUnhealthy, which counts it in FailureCount, and nothing resets the count.
SendsToDownDefault ==
    FailuresOf("default")
      + Cardinality({<<w, i>> \in Workers \X (1..BatchSize) :
                        /\ i \in DOMAIN batch[w]
                        /\ batch[w][i].pc = "markUnhealthyAdd"
                        /\ batch[w][i].target = "default"})

\* C21 as stated: while default fails every send and no probe succeeds, it
\* receives at most 2 + P sends, and no send to it starts once its breaker is
\* Open.
C21_NoSendAfterOpen ==
    /\ [](DownNoProbe => SendsToDownDefault <= (FailureThreshold - 1) + MaxConcurrentCalls)
    /\ [][\A w \in Workers : \A i \in DOMAIN batch[w] :
            (/\ DownNoProbe
             /\ batch[w][i].pc = "send"
             /\ batch[w][i].target = "default"
             /\ batch'[w][i] # batch[w][i])
            => HealthOf("default") = 1]_vars

\* C21 amended: while default fails every send and no probe succeeds, it
\* receives at most 2 + P sends, its breaker once Open stays Open, and no call
\* that reads the breaker once it is Open goes on to send to default.
C21_BoundedExtraSends ==
    /\ [](DownNoProbe => SendsToDownDefault <= (FailureThreshold - 1) + MaxConcurrentCalls)
    /\ [][DownNoProbe =>
            /\ HealthOf("default") = 0 => HealthOf("default")' = 0
            /\ \A w \in Workers : \A i \in DOMAIN batch[w] :
                 (/\ HealthOf("default") = 0
                  /\ batch[w][i].pc = "load"
                  /\ batch[w][i].target = "default"
                  /\ batch'[w][i] # batch[w][i])
                 => (batch'[w][i].pc = "load" /\ batch'[w][i].target = "fallback")]_vars

\* Default received 2 + P sends, is Open, and a later call has skipped it.
C21_Witness ==
    /\ DownNoProbe
    /\ SendsToDownDefault = (FailureThreshold - 1) + MaxConcurrentCalls
    /\ HealthOf("default") = 0
    /\ \E c \in Calls : c.loaded # <<>> /\ c.loaded[1] = <<"default", 0>>

\* C22: a probe goroutine pings a processor only if it has just read it as
\* Open; a ping that fails writes nothing (the processor keeps its healthy flag
\* and its failure count); no count of retries exists: whenever HealthChecker
\* waits in its select the next tick can fire, and a tick starts a check of
\* both processors.
C22_FailedProbeChangesNothing ==
    /\ [](hcPc = "select" /\ hcCtx = "live" => ENABLED HealthCheckerTick)
    /\ [][\A id \in Processors :
            /\ (probe[id] = "load" /\ probe'[id] = "ping") => HealthOf(id) = 0
            /\ (probe[id] = "load" /\ HealthOf(id) = 1) => probe'[id] \in {"load", "done"}
            /\ (probe[id] = "ping" /\ probe'[id] = "failed") => processor' = processor
            /\ (hcPc = "select" /\ hcPc' = "check") => probe'[id] = "load"]_vars

\* A probe of default has failed and default is Open as it was.
C22_Witness ==
    /\ probe["default"] = "failed"
    /\ HealthOf("default") = 0
    /\ streak["default"] >= FailureThreshold
    /\ FailuresOf("default") = streak["default"]

\* C23: the outcome counters never sum to more than totalPayments; the
\* difference is the number of ProcessPayment calls that have counted
\* themselves in totalPayments and have not returned; with no call in progress
\* the two sides are equal; no counter ever decreases.
C23_CountersConserved ==
    /\ [](LET sum == processor.defaultSuccess + processor.fallbackSuccess
                       + processor.totalErrors IN
            /\ sum <= processor.totalPayments
            /\ processor.totalPayments - sum = Cardinality(Counted)
            /\ (\A c \in Calls : ~Running(c)) => processor.totalPayments = sum)
    /\ [][/\ processor'.totalPayments >= processor.totalPayments
          /\ processor'.defaultSuccess >= processor.defaultSuccess
          /\ processor'.fallbackSuccess >= processor.fallbackSuccess
          /\ processor'.totalErrors >= processor.totalErrors]_vars

\* As many calls as the semaphore allows are in progress after one call has
\* returned with a success on fallback and another with an error.
C23_Witness ==
    /\ Cardinality(Counted) = SemaphoreSize
    /\ processor.fallbackSuccess > 0
    /\ processor.totalErrors > 0

\* A markHealthy or markUnhealthy on processor id is between its writes.
MarkInProgress(id) ==
    \/ MarkHealthyInProgress(id)
    \/ \E c \in Calls : c.pc = "markUnhealthyStore" /\ c.target = id

\* C24: whenever no markHealthy and no markUnhealthy is between its writes on
\* a processor, the processor is not Closed with a failure count of three or
\* more.
C24_ClosedMeansBelowThreshold ==
    \A id \in Processors :
        (~MarkInProgress(id) /\ HealthOf(id) = 1) =>
            FailuresOf(id) < FailureThreshold

\* Default fails every send, at least three payments went through, and
\* default is Closed again with no write under way.
C24_Witness ==
    /\ scenario.default = "always5xx"
    /\ Drained
    /\ returned >= FailureThreshold
    /\ ~MarkInProgress("default")
    /\ HealthOf("default") = 1

\* C25: a call ends in totalErrors only after it has read the flags of both
\* processors and has sent to fallback if it read fallback as Closed, so a
\* failure or a skip of default alone never ends it; a call ends in
\* fallbackSuccess only after it skipped default as Open or sent to default
\* first; totalErrors and fallbackSuccess change only by such a call.
C25_DefaultFailureLeavesFallback ==
    /\ [](\A c \in Calls :
            /\ c.pc = "error" =>
                 /\ Len(c.loaded) = 2
                 /\ c.answer # "2xx"
                 /\ c.loaded[2] = <<"fallback", 1>> => c.sends[Len(c.sends)] = "fallback"
            /\ (c.pc = "success" /\ c.target = "fallback") =>
                 \/ c.loaded[1] = <<"default", 0>> /\ c.sends = <<"fallback">>
                 \/ c.loaded[1] = <<"default", 1>> /\ c.sends = <<"default", "fallback">>)
    /\ [][/\ processor'.totalErrors # processor.totalErrors =>
               \E w \in Workers : \E i \in DOMAIN batch[w] :
                   batch[w][i].pc = "error" /\ batch'[w][i].pc = "done"
          /\ processor'.fallbackSuccess # processor.fallbackSuccess =>
               \E w \in Workers : \E i \in DOMAIN batch[w] :
                   /\ batch[w][i].pc = "success"
                   /\ batch[w][i].target = "fallback"
                   /\ batch'[w][i].pc = "done"]_vars

\* A call that failed on default is about to count a success on fallback, and
\* another call is about to count an error after failing on both.
C25_Witness ==
    /\ \E c \in Calls :
         c.pc = "success" /\ c.target = "fallback" /\ c.sends = <<"default", "fallback">>
    /\ \E c \in Calls :
         c.pc = "error" /\ c.sends = <<"default", "fallback">>

====
